---- MODULE Spec2Model ----
(***************************************************************************)
(* FtdiSerial (pyftdi/serialext/protocol_ftdi.py): the pyserial-compatible *)
(* port bound to an FTDI device handle.  The port object is the state; the *)
(* USB driver (pyftdi.ftdi.Ftdi) is the environment: every driver call is  *)
(* recorded in `calls` with the outcome the driver chose for it.           *)
(*                                                                         *)
(* Time is counted in ticks of 10 ms (the argument of sleep() in read).    *)
(* The code reads the clock only as the difference now() - start inside    *)
(* read(), so the model keeps that difference, `elapsed`, and no clock.    *)
(* read() is a blocking loop that talks to the device, so it is modelled   *)
(* step by step (rd_pc); no other method runs while it is in progress      *)
(* (single-threaded use, spec section 5).                                  *)
(***************************************************************************)
EXTENDS Integers, Sequences, FiniteSets, TLC

\* ---------------------------------------------------------------- bounds
\* Largest size passed to read().
MaxSize == 2
\* With no timeout, the number of empty polls the device answers before it
\* supplies data ("the device eventually supplies the bytes").
MaxEmptyPolls == 1
\* Largest configured timeout, in ticks.
MaxTimeout == 1
\* Number of device handles the driver hands out in one behaviour.
MaxHandles == 2

\* ------------------------------------------------------------ values
None == << >>
Some(x) == << x >>

Byte == {"A", "B"}
Chunks(n) == UNION {[1..k -> Byte] : k \in 0..n}

Url == "ftdi:///1"
Baudrates == {9600, 115200}
Timeouts == {None} \cup {Some(t) : t \in 0..MaxTimeout}
\* sleep() returns after the requested time or later.
SleepTicks == {1, 2}

\* Texts of the driver's errors: str(ex) of a failed create_from_url, of a
\* failed device call, and the value of get_error_string().
CreateErrors == {"UsbToolsError", "IOError"}
ErrText(kind) == IF kind = "UsbToolsError" THEN "no such device" ELSE "usb claim failed"
IoText == "usb io failed"
DevErr == "device last error"

VARIABLES
    port, baudrate, bytesize, stopbits, parity, rtscts, xonxoff, timeout,
    break_state, rts_state, dtr_state,
    is_open, udev,
    created, closes,
    rd_pc, rd_size, rd_data, elapsed,
    last, calls

settings == << port, baudrate, bytesize, stopbits, parity, rtscts, xonxoff,
               timeout, break_state, rts_state, dtr_state >>
portstate == << is_open, udev >>
driver == << created, closes >>
rdlocals == << rd_pc, rd_size, rd_data, elapsed >>
vars == << settings, portstate, driver, rdlocals, last, calls >>

\* ------------------------------------------------- results of a method
\* last: the method most recently called and how it ended.
Running(op) ==
    [op |-> op, status |-> "running", exc |-> "", fmt |-> "", args |-> << >>,
     ret |-> << >>, elapsed |-> 0]
Return(op, ret) ==
    [op |-> op, status |-> "ok", exc |-> "", fmt |-> "", args |-> << >>,
     ret |-> ret, elapsed |-> 0]
Raise(op, exc, fmt, args) ==
    [op |-> op, status |-> "raise", exc |-> exc, fmt |-> fmt, args |-> args,
     ret |-> << >>, elapsed |-> 0]
\* self.udev is None: "self.udev.<method>" raises AttributeError.
RaiseNoDevice(op, method) ==
    Raise(op, "AttributeError", "'NoneType' object has no attribute %s", << method >>)
\* An IOError of the driver leaves the method as it is.
RaiseIo(op) == Raise(op, "IOError", "%s", << IoText >>)

\* One call of the driver: the handle, the method, its arguments, how it
\* ended ("ok" or the exception it raised) and what it returned.
Call(h, method, args, out, ret) ==
    [h |-> h, method |-> method, args |-> args, out |-> out, ret |-> ret]

Init ==
    /\ port \in {None, Some(Url)}
    /\ baudrate \in Baudrates
    /\ bytesize = 8
    /\ stopbits = 1
    /\ parity = "N"
    /\ rtscts \in BOOLEAN
    /\ xonxoff \in BOOLEAN
    /\ timeout \in Timeouts
    /\ break_state = FALSE
    /\ rts_state = TRUE
    /\ dtr_state = TRUE
    /\ is_open = FALSE
    /\ udev = None
    /\ created = 0
    /\ closes = [h \in 1..MaxHandles |-> 0]
    /\ rd_pc = "idle"
    /\ rd_size = 0
    /\ rd_data = << >>
    /\ elapsed = 0
    /\ last = Return("init", << >>)
    /\ calls = << >>

\* ------------------------------------------------- _reconfigure_port
\* The flow-control mode handed to set_flowctrl.
\* (the variant tests xonxoff first)
FlowCtrlMode_xonFirst ==
    IF xonxoff THEN "sw" ELSE IF rtscts THEN "hw" ELSE ""

FlowCtrlMode ==
    IF rtscts THEN "hw" ELSE IF xonxoff THEN "sw" ELSE ""

\* The configuration calls, in the order the code makes them.
\* (the variant sets the line properties before the baud rate)
PushCalls_lineFirst ==
    << [method |-> "set_line_property", args |-> << bytesize, stopbits, parity >>],
       [method |-> "set_baudrate", args |-> << baudrate >>],
       [method |-> "set_flowctrl", args |-> << FlowCtrlMode >>],
       [method |-> "set_dynamic_latency", args |-> << 12, 200, 50 >>] >>

PushCalls ==
    << [method |-> "set_baudrate", args |-> << baudrate >>],
       [method |-> "set_line_property", args |-> << bytesize, stopbits, parity >>],
       [method |-> "set_flowctrl", args |-> << FlowCtrlMode >>],
       [method |-> "set_dynamic_latency", args |-> << 12, 200, 50 >>] >>

\* What the driver may answer to the four calls: any of them may raise
\* IOError; set_dynamic_latency is missing from some backends, and calling it
\* then raises AttributeError.  At most one call is answered with an
\* exception: the answers that differ only in a later one differ in nothing
\* the port does with them.
PushOuts ==
    {o \in [1..4 -> {"ok", "IOError", "AttributeError"}] :
        /\ \A i \in 1..3 : o[i] # "AttributeError"
        /\ \A i \in 1..4, j \in 1..4 : (o[i] # "ok" /\ o[j] # "ok") => i = j}

\* The inner try around set_dynamic_latency: what leaves it.
\* (the variant has no except clause)
LatencyGuard_noCatch(out) == out

LatencyGuard(out) == IF out = "AttributeError" THEN "ok" ELSE out

\* What leaves the i-th call of the try block.
Leaves(i, out) == IF i = 4 THEN LatencyGuard(out) ELSE out

\* The first call an exception leaves, 0 when there is none.
FirstFail(outs) ==
    LET bad == {i \in 1..4 : Leaves(i, outs[i]) # "ok"}
    IN  IF bad = {} THEN 0 ELSE CHOOSE i \in bad : \A j \in bad : i <= j

\* The message of the SerialException raised for an IOError e:
\* "%s (%s)" % (str(e), err).
ConfigError(op) ==
    Raise(op, "SerialException", "%s (%s)", << IoText, DevErr >>)

\* _reconfigure_port() on handle h with the driver answering outs: the
\* driver calls made, and how the method ends for caller op.
Reconfigure(op, h, outs) ==
    LET ff == FirstFail(outs)
        n == IF ff = 0 THEN 4 ELSE ff
        pushed == [i \in 1..n |->
                     Call(h, PushCalls[i].method, PushCalls[i].args, outs[i], << >>)]
        exc == IF ff = 0 THEN "ok" ELSE Leaves(ff, outs[ff])
    IN  IF exc = "ok"
        THEN [calls |-> pushed, last |-> Return(op, << >>)]
        ELSE IF exc = "IOError"
        THEN [calls |-> Append(pushed,
                               Call(h, "get_error_string", << >>, "ok", << DevErr >>)),
              last |-> ConfigError(op)]
        ELSE [calls |-> pushed,
              last |-> Raise(op, exc, "%s object has no attribute %s",
                             << "Ftdi", PushCalls[ff].method >>)]

\* ------------------------------------------------------------- open
\* The message of the SerialException raised when create_from_url fails.
\* (the variant leaves out the cause)
OpenError_noCause(kind) ==
    Raise("open", "SerialException", "Unable to open USB port %s", << port[1] >>)

OpenError(kind) ==
    Raise("open", "SerialException", "Unable to open USB port %s: %s",
          << port[1], ErrText(kind) >>)

\* open(): res is the driver's answer to create_from_url, outs its answers
\* to the configuration calls.
Open ==
    /\ rd_pc = "idle"
    /\ IF port = None
       THEN /\ last' = Raise("open", "SerialException",
                             "Port must be configured before use.", << >>)
            /\ calls' = << >>
            /\ UNCHANGED << portstate, driver >>
       ELSE \/ \E res \in CreateErrors :
                /\ last' = OpenError(res)
                /\ calls' = << Call(0, "create_from_url", << port[1] >>, res, << >>) >>
                /\ UNCHANGED << portstate, driver >>
            \/ /\ created < MaxHandles
               /\ \E outs \in PushOuts :
                    LET h == created + 1
                        r == Reconfigure("open", h, outs)
                    IN  /\ created' = h
                        /\ udev' = Some(h)
                        /\ is_open' = TRUE
                        /\ calls' = << Call(0, "create_from_url", << port[1] >>,
                                            "ok", << h >>) >> \o r.calls
                        /\ last' = r.last
               /\ UNCHANGED closes
    /\ UNCHANGED << settings, rdlocals >>

\* ------------------------------------------------------------ close
\* close() without the final self.udev = None.
Close_keepHandle ==
    /\ rd_pc = "idle"
    /\ is_open' = FALSE
    /\ IF udev # None
       THEN /\ closes' = [closes EXCEPT ![udev[1]] = @ + 1]
            /\ calls' = << Call(udev[1], "close", << >>, "ok", << >>) >>
       ELSE /\ calls' = << >>
            /\ UNCHANGED closes
    /\ last' = Return("close", << >>)
    /\ UNCHANGED << udev, created, settings, rdlocals >>

\* close(): the driver's close() releases the handle and does not raise.
Close ==
    /\ rd_pc = "idle"
    /\ is_open' = FALSE
    /\ IF udev # None
       THEN /\ closes' = [closes EXCEPT ![udev[1]] = @ + 1]
            /\ udev' = None
            /\ calls' = << Call(udev[1], "close", << >>, "ok", << >>) >>
       ELSE /\ calls' = << >>
            /\ UNCHANGED << udev, closes >>
    /\ last' = Return("close", << >>)
    /\ UNCHANGED << created, settings, rdlocals >>

\* ------------------------------------------------------------- read
\* The polls of the read in progress (or just ended) that returned nothing.
EmptyPolls == Cardinality({i \in DOMAIN calls : calls[i].ret = << >>})

\* The tests that leave the loop after a poll: size is what is still
\* wanted after the poll, buf what the poll returned, ms the time since the
\* call began.
\* Variants: leaving on any data also with no timeout; leaving when the
\* timeout is reached, not exceeded; not leaving on data with a timeout.
LoopExit_anyData(size, buf, ms) ==
    \/ size <= 0
    \/ buf # << >>
    \/ timeout # None /\ ms > timeout[1]

LoopExit_atTimeout(size, buf, ms) ==
    \/ size <= 0
    \/ timeout # None /\ (buf # << >> \/ ms >= timeout[1])

LoopExit_fullSize(size, buf, ms) ==
    \/ size <= 0
    \/ timeout # None /\ ms > timeout[1]

LoopExit(size, buf, ms) ==
    \/ size <= 0
    \/ timeout # None /\ (buf # << >> \/ ms > timeout[1])

\* read(size) is called: data = bytearray(); start = now(), so that
\* now() - start is 0.
ReadCall ==
    /\ rd_pc = "idle"
    /\ \E size \in 0..MaxSize :
        /\ rd_size' = size
        /\ last' = [Running("read") EXCEPT !.args = << size >>]
    /\ rd_pc' = "poll"
    /\ rd_data' = << >>
    /\ elapsed' = 0
    /\ calls' = << >>
    /\ UNCHANGED << settings, portstate, driver >>

\* The locals of read() once it has ended.
ReadEnds ==
    /\ rd_pc' = "idle"
    /\ rd_size' = 0
    /\ rd_data' = << >>
    /\ elapsed' = 0

\* One turn of the loop up to the sleep: buf = self.udev.read_data(size),
\* which returns at most size bytes, or raises.
ReadPoll ==
    /\ rd_pc = "poll"
    /\ IF udev = None
       THEN /\ last' = [RaiseNoDevice("read", "read_data") EXCEPT !.args = last.args]
            /\ calls' = << >>
            /\ ReadEnds
       ELSE \/ /\ last' = [RaiseIo("read") EXCEPT !.args = last.args]
               /\ calls' = Append(calls, Call(udev[1], "read_data", << rd_size >>,
                                              "IOError", None))
               /\ ReadEnds
            \/ \E buf \in Chunks(rd_size) :
                /\ buf = << >> =>
                     \/ rd_size = 0
                     \/ timeout # None
                     \/ EmptyPolls < MaxEmptyPolls
                /\ calls' = Append(calls, Call(udev[1], "read_data", << rd_size >>,
                                               "ok", buf))
                /\ IF LoopExit(rd_size - Len(buf), buf, elapsed)
                   THEN /\ last' = [Return("read", rd_data \o buf) EXCEPT
                                      !.args = last.args, !.elapsed = elapsed]
                        /\ ReadEnds
                   ELSE /\ rd_data' = rd_data \o buf
                        /\ rd_size' = rd_size - Len(buf)
                        /\ rd_pc' = "sleep"
                        /\ UNCHANGED << elapsed, last >>
    /\ UNCHANGED << settings, portstate, driver >>

\* sleep(0.01)
ReadSleep ==
    /\ rd_pc = "sleep"
    /\ \E d \in SleepTicks : elapsed' = elapsed + d
    /\ rd_pc' = "poll"
    /\ UNCHANGED << settings, portstate, driver, rd_size, rd_data, last, calls >>

\* ------------------------------------------ methods forwarded as they are
\* A method that is one call of the driver: it ends as the call ends.
Forward(op, method, args, out, ret) ==
    /\ rd_pc = "idle"
    /\ IF udev = None
       THEN /\ last' = RaiseNoDevice(op, method)
            /\ calls' = << >>
       ELSE /\ calls' = << Call(udev[1], method, args, out, ret) >>
            /\ last' = IF out = "ok" THEN Return(op, ret) ELSE RaiseIo(op)
    /\ UNCHANGED << settings, portstate, driver, rdlocals >>

DriverOuts == {"ok", "IOError"}

\* The data handed to write(); write_data may accept only a part of it.
WriteData == {<< "A" >>, << "A", "B" >>}

\* write() that returns 0 when no handle is held.
Write_skipWhenClosed ==
    \E data \in WriteData, out \in DriverOuts, n \in 0..2 :
        /\ n <= Len(data)
        /\ IF udev = None
           THEN /\ rd_pc = "idle"
                /\ last' = Return("write", << 0 >>)
                /\ calls' = << >>
                /\ UNCHANGED << settings, portstate, driver, rdlocals >>
           ELSE Forward("write", "write_data", << data >>, out, << n >>)

Write ==
    \E data \in WriteData, out \in DriverOuts, n \in 0..2 :
        /\ n <= Len(data)
        /\ Forward("write", "write_data", << data >>, out, << n >>)

Flush ==
    /\ rd_pc = "idle"
    /\ last' = Return("flush", None)
    /\ calls' = << >>
    /\ UNCHANGED << settings, portstate, driver, rdlocals >>

ResetInputBuffer ==
    \E out \in DriverOuts :
        Forward("reset_input_buffer", "purge_rx_buffer", << >>, out, None)

ResetOutputBuffer ==
    \E out \in DriverOuts :
        Forward("reset_output_buffer", "purge_tx_buffer", << >>, out, None)

\* send_break(duration): set_break(True); sleep(duration); set_break(False)
SendBreak ==
    /\ rd_pc = "idle"
    /\ IF udev = None
       THEN /\ last' = RaiseNoDevice("send_break", "set_break")
            /\ calls' = << >>
       ELSE \E o1 \in DriverOuts, o2 \in DriverOuts :
                LET c1 == Call(udev[1], "set_break", << TRUE >>, o1, None)
                    c2 == Call(udev[1], "set_break", << FALSE >>, o2, None)
                IN  IF o1 # "ok"
                    THEN /\ calls' = << c1 >>
                         /\ last' = RaiseIo("send_break")
                    ELSE /\ calls' = << c1, c2 >>
                         /\ last' = IF o2 = "ok" THEN Return("send_break", None)
                                    ELSE RaiseIo("send_break")
    /\ UNCHANGED << settings, portstate, driver, rdlocals >>

UpdateBreakState ==
    \E out \in DriverOuts :
        Forward("_update_break_state", "set_break", << break_state >>, out, None)

UpdateRtsState ==
    \E out \in DriverOuts :
        Forward("_update_rts_state", "set_rts", << rts_state >>, out, None)

UpdateDtrState ==
    \E out \in DriverOuts :
        Forward("_update_dtr_state", "set_dtr", << dtr_state >>, out, None)

Cts ==
    \E out \in DriverOuts, b \in BOOLEAN :
        Forward("cts", "get_cts", << >>, out, << b >>)

Dsr ==
    \E out \in DriverOuts, b \in BOOLEAN :
        Forward("dsr", "get_dsr", << >>, out, << b >>)

Ri ==
    \E out \in DriverOuts, b \in BOOLEAN :
        Forward("ri", "get_ri", << >>, out, << b >>)

Cd ==
    \E out \in DriverOuts, b \in BOOLEAN :
        Forward("cd", "get_cd", << >>, out, << b >>)

InWaiting ==
    /\ rd_pc = "idle"
    /\ last' = Return("in_waiting", << 0 >>)
    /\ calls' = << >>
    /\ UNCHANGED << settings, portstate, driver, rdlocals >>

OutWaiting ==
    /\ rd_pc = "idle"
    /\ last' = Return("out_waiting", << 0 >>)
    /\ calls' = << >>
    /\ UNCHANGED << settings, portstate, driver, rdlocals >>

\* ------------------------------------------------------------ behaviours
Next ==
    \/ Open
    \/ Close
    \/ ReadCall
    \/ ReadPoll
    \/ ReadSleep
    \/ Write
    \/ Flush
    \/ ResetInputBuffer
    \/ ResetOutputBuffer
    \/ SendBreak
    \/ UpdateBreakState
    \/ UpdateRtsState
    \/ UpdateDtrState
    \/ Cts
    \/ Dsr
    \/ Ri
    \/ Cd
    \/ InWaiting
    \/ OutWaiting

Spec == Init /\ [][Next]_vars

\* read() runs on the calling thread: once called, its loop keeps running and
\* sleep() returns.
FairSpec == Spec /\ WF_vars(ReadPoll) /\ WF_vars(ReadSleep)

\* ================================================================ claims
ReadReturned == last.op = "read" /\ last.status = "ok"
Reading == rd_pc # "idle"
\* The size read() was called with.
Requested == last.args[1]

RECURSIVE Concat(_)
Concat(log) == IF log = << >> THEN << >> ELSE Head(log).ret \o Concat(Tail(log))
\* The bytes the device handed over during the read, in the order of the polls.
Supplied == Concat(calls)
NonemptyPolls == {i \in DOMAIN calls : calls[i].ret # << >>}

\* C1: with no timeout, a read that returns has returned exactly the size
\* bytes asked for, and they are the bytes the device supplied, in their
\* order; while fewer have been supplied the read has not returned; and once
\* the device supplies them the read ends.
C1_ReadExactSize ==
    /\ [](timeout = None =>
            /\ ReadReturned =>
                 /\ Len(last.ret) = Requested
                 /\ last.ret = Supplied
            /\ Reading => (rd_data = Supplied /\ Len(rd_data) + rd_size = Requested))
    /\ ((Reading /\ timeout = None) ~> ~Reading)

\* A read of 2 bytes that the device served as one byte, nothing, one byte.
C1_Witness ==
    /\ ReadReturned
    /\ timeout = None
    /\ Requested = 2
    /\ last.ret = << "A", "B" >>
    /\ Len(calls) = 3

\* C2: with a timeout, a read ends; when it asked for size > 0 and every
\* poll was empty, it returns nothing, and only once the time since the call
\* exceeds the timeout.
C2_TimeoutReadEnds ==
    /\ []((ReadReturned /\ timeout # None /\ Requested > 0 /\ NonemptyPolls = {}) =>
            /\ last.ret = << >>
            /\ last.elapsed > timeout[1])
    /\ ((Reading /\ timeout # None) ~> ~Reading)

C2_Witness ==
    /\ ReadReturned
    /\ timeout = Some(1)
    /\ Requested = 2
    /\ last.ret = << >>
    /\ Len(calls) >= 2

\* C3: with a timeout, a read that got a nonempty chunk returned at once:
\* that poll is the last one, every earlier poll was empty, and the result is
\* that chunk, also when it is shorter than size.
C3_FirstChunkReturned ==
    timeout # None =>
        /\ Reading => NonemptyPolls = {}
        /\ (ReadReturned /\ NonemptyPolls # {}) =>
             /\ NonemptyPolls = {Len(calls)}
             /\ last.ret = calls[Len(calls)].ret

\* A read of 2 bytes that ended with the 1 byte of its second poll.
C3_Witness ==
    /\ ReadReturned
    /\ timeout # None
    /\ Requested = 2
    /\ Len(calls) = 2
    /\ Len(last.ret) = 1

C5_OpenPushesSettings ==
    (last.op = "open" /\ last.status = "ok") =>
        /\ is_open
        /\ udev = Some(created)
        /\ Len(calls) >= 4
        /\ calls[1] = Call(0, "create_from_url", << port[1] >>, "ok", << created >>)
        /\ calls[2] = Call(created, "set_baudrate", << baudrate >>, "ok", << >>)
        /\ calls[3] = Call(created, "set_line_property",
                           << bytesize, stopbits, parity >>, "ok", << >>)
        /\ calls[4].h = created
        /\ calls[4].method = "set_flowctrl"
        /\ calls[4].out = "ok"

C5_Witness ==
    /\ last.op = "open"
    /\ last.status = "ok"
    /\ baudrate = 115200
    /\ created = 2

FlowCalls == {i \in DOMAIN calls : calls[i].method = "set_flowctrl"}

\* C6: a reconfiguration sets the flow-control mode at most once, and once
\* the baud rate and the line properties are accepted exactly once: hardware
\* when rtscts is set, else software when xonxoff is set, else none.
C6_FlowControlPriority ==
    last.op = "open" =>
        /\ Cardinality(FlowCalls) <= 1
        /\ (Len(calls) >= 3 /\ calls[3].method = "set_line_property"
                            /\ calls[3].out = "ok") => Cardinality(FlowCalls) = 1
        /\ \A i \in FlowCalls :
            /\ rtscts => calls[i].args = << "hw" >>
            /\ (~rtscts /\ xonxoff) => calls[i].args = << "sw" >>
            /\ (~rtscts /\ ~xonxoff) => calls[i].args = << "" >>

\* Both flags set, and the mode was pushed.
C6_Witness ==
    /\ last.op = "open"
    /\ rtscts
    /\ xonxoff
    /\ FlowCalls # {}

LatencyUnsupported ==
    \E i \in DOMAIN calls :
        calls[i].method = "set_dynamic_latency" /\ calls[i].out = "AttributeError"

\* C7: when the device has no set_dynamic_latency, open() returns normally
\* with the port open and the baud rate, line properties and flow-control
\* mode accepted by the device.
C7_LatencyOptional ==
    (last.op = "open" /\ LatencyUnsupported) =>
        /\ last.status = "ok"
        /\ is_open
        /\ udev = Some(created)
        /\ Len(calls) = 5
        /\ \A i \in 2..4 : calls[i].method = PushCalls[i - 1].method /\ calls[i].out = "ok"

C7_Witness == last.op = "open" /\ LatencyUnsupported

DeviceOps ==
    {"read", "write", "reset_input_buffer", "reset_output_buffer", "send_break",
     "_update_break_state", "_update_rts_state", "_update_dtr_state",
     "cts", "dsr", "ri", "cd"}
WaitingOps == {"in_waiting", "out_waiting"}
Closed == ~is_open \/ udev = None

\* C8 as stated: every read, write and status operation, in_waiting and
\* out_waiting included, ends in a failure on a closed port.
C8_AllFailWhenClosed ==
    (last.op \in DeviceOps \cup WaitingOps /\ Closed /\ last.status # "running") =>
        last.status = "raise"

\* C8 amended: is_open is false exactly when no handle is held, and then
\* every operation that uses the device handle raises (AttributeError,
\* without a call of the driver), while in_waiting and out_waiting return 0
\* whatever the state of the port.
C8_DeviceOpsFailWhenClosed ==
    /\ is_open <=> udev # None
    /\ (last.op \in DeviceOps /\ Closed /\ last.status # "running") =>
         /\ last.status = "raise"
         /\ last.exc = "AttributeError"
         /\ calls = << >>
    /\ last.op \in WaitingOps => (last.status = "ok" /\ last.ret = << 0 >>)

\* write() after the port was opened and closed.
C8_Witness ==
    /\ last.op = "write"
    /\ Closed
    /\ created = 1
    /\ closes[1] = 1

OpenFailed == last.op = "open" /\ last.status = "raise"

\* C9 as stated: a failed open() is either a PortUnavailable that wraps the
\* cause, with no handle stored and is_open not set, or a configuration
\* error with the I/O error text and the device's last error.
C9_TwoOpenErrors ==
    OpenFailed =>
        \/ /\ last.fmt = "Unable to open USB port %s: %s"
           /\ last.args \in {<< port[1], ErrText(k) >> : k \in CreateErrors}
           /\ udev = None
           /\ ~is_open
        \/ /\ last.fmt = "%s (%s)"
           /\ last.args = << IoText, DevErr >>

\* C9 amended: a failed open() raises SerialException in one of three forms
\* the caller can tell apart: "Port must be configured before use." when no
\* port is set, and "Unable to open USB port <port>: <cause>" when the port
\* cannot be resolved, both leaving the handle and is_open as they were
\* before the call; "<I/O error> (<device's last error>)" when a configuration
\* call fails, with the new handle stored and is_open true.
C9_OpenErrors ==
    [][(last'.op = "open" /\ last'.status = "raise") =>
        /\ last'.exc = "SerialException"
        /\ \/ /\ port = None
              /\ last'.fmt = "Port must be configured before use."
              /\ last'.args = << >>
              /\ UNCHANGED << is_open, udev, created, closes >>
           \/ /\ port # None
              /\ last'.fmt = "Unable to open USB port %s: %s"
              /\ \E k \in CreateErrors :
                    /\ last'.args = << port[1], ErrText(k) >>
                    /\ calls' = << Call(0, "create_from_url", << port[1] >>, k, << >>) >>
              /\ UNCHANGED << is_open, udev, created, closes >>
           \/ /\ port # None
              /\ last'.fmt = "%s (%s)"
              /\ last'.args = << IoText, DevErr >>
              /\ calls'[Len(calls')] =
                    Call(created', "get_error_string", << >>, "ok", << DevErr >>)
              /\ calls'[Len(calls') - 1].out = "IOError"
              /\ created' = created + 1
              /\ udev' = Some(created')
              /\ is_open']_vars

\* open() failed in a configuration call.
C9_Witness ==
    /\ OpenFailed
    /\ last.fmt = "%s (%s)"
    /\ is_open
    /\ Len(calls) = 4

\* The handles obtained from the driver and not released.
Live == created - Cardinality({h \in 1..MaxHandles : closes[h] > 0})

\* C10: the port holds one unreleased handle while is_open is true and none
\* while it is false.
C10_OneLiveHandle == Live = IF is_open THEN 1 ELSE 0

====
